---- MODULE Spec2Model ----
(***************************************************************************)
(* dj-webhooks: the configuration module (djwebhooks/conf.py) and the      *)
(* Redis-logging sender (djwebhooks/senders/redislog.py).                  *)
(*                                                                         *)
(* Python strings are TLA+ strings, so that an f-string is a real          *)
(* concatenation.  A settings value is a tagged record: absent, present    *)
(* but not iterable, or an iterable of items.  An item is tagged with its  *)
(* Python type, because the settings loader accepts any item type.         *)
(*                                                                         *)
(* The base class webhooks.senders.base.Senderable and the model           *)
(* djwebhooks.models.WebhookTarget are imported by redislog.py but their   *)
(* code is not part of the source tree; the definitions that stand for     *)
(* them follow sections 3, 4.2 and 4.3 of the specification and say so.    *)
(***************************************************************************)
EXTENDS Integers, Sequences, FiniteSets, TLC

\* Longest iterable a settings value is drawn from.
MaxSched == 2
\* Number of calls of a decorated function in one run.
MaxDispatch == 1
\* Number of senders whose log key is computed in one run of KeySpec.
MaxKeys == 2

VARIABLES
    settings,                 \* django.conf.settings (fixed before startup)
    startup,                  \* "boot" | "ready" | "failed"
    WEBHOOK_ATTEMPTS,         \* redislog.py:23 / conf.py:22
    WEBHOOK_OWNER_FIELD,      \* redislog.py:18 / conf.py:21
    WEBHOOK_EVENTS_CHOICES,   \* conf.py:24
    redis,                    \* the Redis lists: key -> sequence, head first
    now,                      \* django.utils.timezone.now()
    pc,                       \* position of the current dispatch call
    call,                     \* arguments of the current dispatch call
    senderobj,                \* the RedisLogSenderable of the current call
    result,                   \* what the current call returned
    raised,                   \* the exception that escaped the current call
    calls,                    \* per-call counts of collaborator accesses
    ndispatch,                \* calls made so far
    keylog                    \* KeySpec: the senders whose log key was computed

vars == <<settings, startup, WEBHOOK_ATTEMPTS, WEBHOOK_OWNER_FIELD,
          WEBHOOK_EVENTS_CHOICES, redis, now, pc, call, senderobj, result,
          raised, calls, ndispatch, keylog>>

confVars == <<settings, startup, WEBHOOK_ATTEMPTS, WEBHOOK_OWNER_FIELD,
              WEBHOOK_EVENTS_CHOICES>>

-----------------------------------------------------------------------------
(* Settings values *)

Unset == [tag |-> "unset", items |-> <<>>]
NonIterable == [tag |-> "noniterable", items |-> <<>>]
Iter(s) == [tag |-> "iterable", items |-> s]

IntItem(r) == [kind |-> "int", repr |-> r]
StrItem(r) == [kind |-> "str", repr |-> r]

Items == {IntItem("0"), IntItem("15"), StrItem("order.ship")}

SeqsUpTo(S, n) == UNION {[1..k -> S] : k \in 0..n}

EventsSettings == {Unset, NonIterable} \cup {Iter(s) : s \in SeqsUpTo(Items, MaxSched)}
AttemptsSettings == {Unset, Iter(<<IntItem("0"), IntItem("15")>>)}
OwnerFieldSettings == {"<unset>", "email"}

\* getattr(settings, name, default) for a string-valued option
getattr_str(value, default) == IF value = "<unset>" THEN default ELSE value

\* getattr(settings, name, default) for a tagged value
getattr_settings(value, default) == IF value.tag = "unset" THEN default ELSE value

DefaultAttempts == Iter(<<IntItem("0"), IntItem("15"), IntItem("30"), IntItem("60")>>)

\* event_choices, but an absent setting is taken as no events ("events or []")
event_choices_none_is_empty(events) ==
    IF events.tag = "noniterable" THEN [ok |-> FALSE, choices |-> <<>>]
    ELSE [ok |-> TRUE,
          choices |-> [i \in 1..Len(events.items) |-> <<events.items[i], events.items[i]>>]]

\* conf.py:5-17.  None stands for an absent setting (getattr default None).
event_choices(events) ==
    IF events.tag = "unset" THEN [ok |-> FALSE, choices |-> <<>>]
    ELSE IF events.tag = "noniterable" THEN [ok |-> FALSE, choices |-> <<>>]
    ELSE [ok |-> TRUE,
          choices |-> [i \in 1..Len(events.items) |-> <<events.items[i], events.items[i]>>]]

\* redislog.py:23 and conf.py:22: the schedule is read from WEBHOOK_EVENTS
LoadAttempts(s) == getattr_settings(s.WEBHOOK_EVENTS, DefaultAttempts)

\* redislog.py:18 and conf.py:21
LoadOwnerField(s) == getattr_str(s.WEBHOOK_OWNER_FIELD, "username")

-----------------------------------------------------------------------------
(* Values the callers pass *)

EmptyMap == [k \in {} |-> ""]

NoCalls == [lookup |-> 0, post |-> 0, lpush |-> 0, notify |-> 0, notified |-> 0,
            lost |-> 0, slept |-> 0, wrapped |-> 0, built |-> 0]

NoCall == [dkwargs |-> EmptyMap, kwargs |-> EmptyMap, hash_value |-> "", raw |-> EmptyMap,
           started |-> 0]
NoSender == [state |-> "NONE"]
NoResult == [kind |-> "none"]

\* m[k] = v, as a Python dict assignment
Assign(m, k, v) == [x \in DOMAIN m \cup {k} |-> IF x = k THEN v ELSE m[x]]

alice == [username |-> "alice", email |-> "alice@example.com"]
Owners == {alice}

IntId(r) == [kind |-> "int", repr |-> r]
Identifiers == {IntId("42"), IntId("7")}

DeclaredEvents == {"order.ship"}
Hashes == {"h1"}

\* What a wrapped payload function may return: any mapping, also one that
\* already holds the keys the sender sets.
RawPayloads ==
    { [order_num |-> "A1"],
      [order_num |-> "A1", owner |-> "mallory", event |-> "bogus"] }

Dkwargs == {EmptyMap} \cup {[event |-> e] : e \in DeclaredEvents}

Kwargs ==
    {EmptyMap}
    \cup {[owner |-> o] : o \in Owners}
    \cup {[identifier |-> i] : i \in Identifiers}
    \cup {[owner |-> o, identifier |-> i] : o \in Owners, i \in Identifiers}

\* The WebhookTarget table: at most one row per (event, owner, identifier).
WebhookTargets ==
    { [event |-> "order.ship", owner |-> alice, identifier |-> IntId("42"),
       target_url |-> "http://example.com/hook"] }

\* WebhookTarget.objects.get(event=, owner=, identifier=): the matching rows
WebhookTarget_get(event, owner, identifier) ==
    {t \in WebhookTargets :
        t.event = event /\ t.owner = owner /\ t.identifier = identifier}

-----------------------------------------------------------------------------
(* redislog.py *)

\* redislog.py:34-35.  An f-string formats each argument with str().
make_key(event, owner_name, identifier) ==
    event \o ":" \o owner_name \o ":" \o identifier.repr

NoResponse == [none |-> TRUE]
Response(status) == [status_code |-> status, content |-> "body"]

\* A transport attempt ends with an HTTP response or with a transport fault.
Statuses == {200, 300}
Outcomes == {[fault |-> FALSE, status |-> s] : s \in Statuses}
            \cup {[fault |-> TRUE, status |-> 0]}

Is2xx(status) == status >= 200 /\ status < 300

\* json.dumps(data, cls=StandardJSONEncoder): the datetime becomes its ISO text
json_dumps(data) == [json |-> [data EXCEPT !.created = [isoformat |-> @]]]

\* redis.lpush(key, value): the value becomes the head of the list at key
lpush(db, key, value) ==
    IF key \in DOMAIN db
    THEN [db EXCEPT ![key] = <<value>> \o @]
    ELSE (key :> <<value>>) @@ db

\* RedisLogSenderable_init, but the event is stored where the hash belongs
RedisLogSenderable_init_wrong_hash(dkwargs, hash_value, attempts, kwargs) ==
    IF "event" \notin DOMAIN dkwargs THEN [state |-> "KeyError"]
    ELSE IF "owner" \notin DOMAIN kwargs THEN [state |-> "KeyError"]
    ELSE IF "identifier" \notin DOMAIN kwargs THEN [state |-> "KeyError"]
    ELSE [state |-> "PENDING",
          event |-> dkwargs.event,
          owner |-> kwargs.owner,
          identifier |-> kwargs.identifier,
          hash_value |-> dkwargs.event,
          attempts |-> attempts.items,
          attempt |-> 0,
          success |-> FALSE,
          response |-> NoResponse,
          payload |-> EmptyMap,
          url |-> "",
          history |-> <<>>]

\* redislog.py:40-48.  KeyError when a key is absent.
RedisLogSenderable_init(dkwargs, hash_value, attempts, kwargs) ==
    IF "event" \notin DOMAIN dkwargs THEN [state |-> "KeyError"]
    ELSE IF "owner" \notin DOMAIN kwargs THEN [state |-> "KeyError"]
    ELSE IF "identifier" \notin DOMAIN kwargs THEN [state |-> "KeyError"]
    ELSE [state |-> "PENDING",
          event |-> dkwargs.event,
          owner |-> kwargs.owner,
          identifier |-> kwargs.identifier,
          hash_value |-> hash_value,
          attempts |-> attempts.items,
          attempt |-> 0,
          success |-> FALSE,
          response |-> NoResponse,
          payload |-> EmptyMap,
          url |-> "",
          history |-> <<>>]

\* redislog.py:66: the key of the list notify pushes to
NotifyKey(self) == make_key(self.event, self.owner.username, self.identifier)

\* notify, but success is recorded as "a response was received"
notify_success_is_response(self, message, db, t, reachable) ==
    IF "status_code" \notin DOMAIN self.response
    THEN [exc |-> "AttributeError", redis |-> db]
    ELSE LET data == [payload |-> self.payload,
                      attempt |-> self.attempt,
                      success |-> TRUE,
                      response_message |-> self.response.content,
                      hash_value |-> self.hash_value,
                      response_status |-> self.response.status_code,
                      notification |-> message,
                      created |-> t]
             value == json_dumps(data)
             key == NotifyKey(self)
         IN IF reachable
            THEN [exc |-> "none", redis |-> lpush(db, key, value)]
            ELSE [exc |-> "ConnectionError", redis |-> db]

\* redislog.py:50-67.  The outcome of self.notify(message) at time t, with
\* the Redis server reachable or not: the new lists, or the exception.
notify(self, message, db, t, reachable) ==
    IF "status_code" \notin DOMAIN self.response
    THEN [exc |-> "AttributeError", redis |-> db]
    ELSE LET data == [payload |-> self.payload,
                      attempt |-> self.attempt,
                      success |-> self.success,
                      response_message |-> self.response.content,
                      hash_value |-> self.hash_value,
                      response_status |-> self.response.status_code,
                      notification |-> message,
                      created |-> t]
             value == json_dumps(data)
             key == NotifyKey(self)
         IN IF reachable
            THEN [exc |-> "none", redis |-> lpush(db, key, value)]
            ELSE [exc |-> "ConnectionError", redis |-> db]

\* Validate, but the identifier check raises the error of the owner check
Validate_copied_check(dkwargs, kwargs) ==
    IF "event" \notin DOMAIN dkwargs THEN "TypeError:event"
    ELSE IF "owner" \notin DOMAIN kwargs THEN "TypeError:owner"
    ELSE IF "identifier" \notin DOMAIN kwargs THEN "TypeError:owner"
    ELSE "ok"

\* redislog.py:84-97: the three checks, in order
Validate(dkwargs, kwargs) ==
    IF "event" \notin DOMAIN dkwargs THEN "TypeError:event"
    ELSE IF "owner" \notin DOMAIN kwargs THEN "TypeError:owner"
    ELSE IF "identifier" \notin DOMAIN kwargs THEN "TypeError:identifier"
    ELSE "ok"

\* redislog.py:85, 90, 95: the message of each TypeError, cut at the quoted
\* argument name
TypeErrorMessage(exc) ==
    IF exc = "TypeError:event"
    THEN <<"djwebhooks.decorators.hook requires an ", "'event'",
           " argument in the decorator.">>
    ELSE IF exc = "TypeError:owner"
    THEN <<"djwebhooks.senders.redislog_callable requires an ", "'owner'",
           " argument in the decorated function.">>
    ELSE IF exc = "TypeError:identifier"
    THEN <<"djwebhooks.senders.redislog_callable requires an ", "'identifier'",
           " argument in the decorated function.">>
    ELSE <<>>

\* AugmentPayload, but the owner is always projected through username
AugmentPayload_username(payload, dkwargs, kwargs, owner_field) ==
    Assign(Assign(payload, "owner", kwargs.owner.username),
           "event", dkwargs.event)

\* redislog.py:120-124: owner and event are written over the payload
AugmentPayload(payload, dkwargs, kwargs, owner_field) ==
    Assign(Assign(payload, "owner", kwargs.owner[owner_field]),
           "event", dkwargs.event)

\* Senderable.get_payload: the wrapped function is invoked and its return
\* value is the raw payload (specification 4.2 step 5).
get_payload(raw) == raw

\* An exception leaves the call
Raise(exc, counts) ==
    [pc |-> "raised", raised |-> exc, result |-> NoResult,
     senderobj |-> NoSender, calls |-> counts]

\* ReturnEarly, but the except clause falls through to the send
ReturnEarly_falls_through(value, sender, counts) ==
    [pc |-> "sending", raised |-> "none", result |-> NoResult,
     senderobj |-> sender, calls |-> counts]

\* A value is returned without sending
ReturnEarly(value, sender, counts) ==
    [pc |-> "returned", raised |-> "none", result |-> value,
     senderobj |-> sender, calls |-> counts]

\* Construct, but with the built-in schedule instead of the configured one
Construct_builtin_schedule(dkwargs, hash_value, attempts, kwargs) ==
    RedisLogSenderable_init(dkwargs, hash_value, DefaultAttempts, kwargs)

\* redislog.py:99-101: the sender object is built with the module's schedule
Construct(dkwargs, hash_value, attempts, kwargs) ==
    RedisLogSenderable_init(dkwargs, hash_value, attempts, kwargs)

\* AfterValidate, but the payload is obtained before the target is looked up
AfterValidate_payload_first(dkwargs, kwargs, hash_value, raw, attempts, owner_field) ==
    LET s0 == Construct(dkwargs, hash_value, attempts, kwargs)
        p == AugmentPayload(get_payload(raw), dkwargs, kwargs, owner_field)
        found == WebhookTarget_get(dkwargs.event, kwargs.owner, kwargs.identifier)
        looked == [NoCalls EXCEPT !.built = 1, !.wrapped = 1, !.lookup = 1]
    IN IF s0.state = "KeyError" THEN Raise("KeyError", NoCalls)
       ELSE IF found = {}
       THEN ReturnEarly([kind |-> "error", error |-> "WebhookTarget not found"],
                        s0, looked)
       ELSE LET t == CHOOSE x \in found : TRUE
            IN [pc |-> "sending", raised |-> "none", result |-> NoResult,
                senderobj |-> [s0 EXCEPT !.url = t.target_url, !.payload = p],
                calls |-> looked]

\* redislog.py:99-126, once the checks have passed, up to the call of send()
AfterValidate(dkwargs, kwargs, hash_value, raw, attempts, owner_field) ==
    LET s0 == Construct(dkwargs, hash_value, attempts, kwargs)
        built == [NoCalls EXCEPT !.built = 1]
        found == WebhookTarget_get(dkwargs.event, kwargs.owner, kwargs.identifier)
        looked == [built EXCEPT !.lookup = 1]
    IN IF s0.state = "KeyError" THEN Raise("KeyError", NoCalls)
       ELSE IF found = {}
       THEN ReturnEarly([kind |-> "error", error |-> "WebhookTarget not found"],
                        s0, looked)
       ELSE LET t == CHOOSE x \in found : TRUE
                p == AugmentPayload(get_payload(raw), dkwargs, kwargs, owner_field)
            IN [pc |-> "sending", raised |-> "none", result |-> NoResult,
                senderobj |-> [s0 EXCEPT !.url = t.target_url, !.payload = p],
                calls |-> [looked EXCEPT !.wrapped = 1]]

\* CallEffect, but the target is looked up before the arguments are checked
CallEffect_lookup_first(dkwargs, kwargs, hash_value, raw, attempts, owner_field) ==
    LET v == Validate(dkwargs, kwargs)
    IN IF v # "ok" THEN Raise(v, [NoCalls EXCEPT !.lookup = 1])
       ELSE AfterValidate(dkwargs, kwargs, hash_value, raw, attempts, owner_field)

\* redislog.py:70-126, up to the call of send()
CallEffect(dkwargs, kwargs, hash_value, raw, attempts, owner_field) ==
    LET v == Validate(dkwargs, kwargs)
    IN IF v # "ok" THEN Raise(v, NoCalls)
       ELSE AfterValidate(dkwargs, kwargs, hash_value, raw, attempts, owner_field)

Init ==
    /\ settings \in [WEBHOOK_EVENTS : EventsSettings,
                     WEBHOOK_ATTEMPTS : AttemptsSettings,
                     WEBHOOK_OWNER_FIELD : OwnerFieldSettings]
    /\ startup = "boot"
    /\ WEBHOOK_ATTEMPTS = Unset
    /\ WEBHOOK_OWNER_FIELD = "<unset>"
    /\ WEBHOOK_EVENTS_CHOICES = <<>>
    /\ redis = EmptyMap
    /\ now = 0
    /\ pc = "idle"
    /\ call = NoCall
    /\ senderobj = NoSender
    /\ result = NoResult
    /\ raised = "none"
    /\ calls = NoCalls
    /\ ndispatch = 0
    /\ keylog = {}

\* Startup: Django imports djwebhooks.conf (conf.py:20-24), then
\* djwebhooks.senders.redislog (redislog.py:18-23).
LoadConf ==
    /\ startup = "boot"
    /\ LET ch == event_choices(getattr_settings(settings.WEBHOOK_EVENTS, Unset))
       IN IF ch.ok
          THEN /\ startup' = "ready"
               /\ WEBHOOK_ATTEMPTS' = LoadAttempts(settings)
               /\ WEBHOOK_OWNER_FIELD' = LoadOwnerField(settings)
               /\ WEBHOOK_EVENTS_CHOICES' = ch.choices
          ELSE /\ startup' = "failed"
               /\ UNCHANGED <<WEBHOOK_ATTEMPTS, WEBHOOK_OWNER_FIELD, WEBHOOK_EVENTS_CHOICES>>
    /\ UNCHANGED <<settings, redis, now, pc, call, senderobj, result, raised,
                   calls, ndispatch, keylog>>

-----------------------------------------------------------------------------
(* Senderable.send(): the retry loop of specification 4.3 *)

\* The structured result of send()
SendResult(self) ==
    [kind |-> "sent", success |-> self.success, attempts |-> self.history,
     hash |-> self.hash_value]

\* LoopEnds, but a success does not end the loop
LoopEnds_schedule_only(ok, i, n) == i + 1 = n

\* The loop ends on the first success or with the last entry of the schedule
LoopEnds(ok, i, n) == ok \/ i + 1 = n

\* NotifyAborts, but an exception of notify leaves send()
NotifyAborts_propagates(exc) == exc # "none"

\* Whether an exception raised by notify leaves send(): never, a notify
\* fault is reported and the loop goes on
NotifyAborts(exc) == FALSE

\* One iteration of the loop: the scheduled delay is consumed, one transport
\* attempt is made, and notify is invoked for it; a fault of notify is
\* reported and the loop goes on.  The loop ends on the first 2xx status or
\* with the schedule, and send() returns.
SendStep(self, out, keep, reachable, db, t, counts) ==
    LET i == Len(self.history)
        ok == ~out.fault /\ Is2xx(out.status)
        resp == IF out.fault
                THEN (IF keep THEN self.response ELSE NoResponse)
                ELSE Response(out.status)
        s1 == [self EXCEPT !.attempt = i, !.success = ok, !.response = resp]
        message == IF ok THEN "sent" ELSE "failed"
        n == notify(s1, message, db, t, reachable)
        rec == [attempt |-> i, timestamp |-> t, success |-> ok,
                fault |-> out.fault, status |-> out.status, message |-> message]
        s2 == [s1 EXCEPT !.history = Append(@, rec)]
        last == LoopEnds(ok, i, Len(self.attempts))
        aborted == NotifyAborts(n.exc)
        s3 == [s2 EXCEPT !.state = IF ok THEN "SUCCEEDED"
                                   ELSE IF last THEN "EXHAUSTED" ELSE "ATTEMPTING"]
    IN [senderobj |-> s3,
        redis |-> n.redis,
        pc |-> IF aborted THEN "raised" ELSE IF last THEN "returned" ELSE "sending",
        raised |-> IF aborted THEN n.exc ELSE "none",
        result |-> IF last /\ ~aborted THEN SendResult(s3) ELSE NoResult,
        calls |-> [counts EXCEPT !.slept = @ + 1,
                                 !.post = @ + 1,
                                 !.notify = @ + 1,
                                 !.notified = IF n.exc = "none" THEN @ + 1 ELSE @,
                                 !.lost = IF n.exc = "ConnectionError" THEN @ + 1 ELSE @,
                                 !.lpush = IF n.exc = "none" THEN @ + 1 ELSE @]]

\* send() with an empty schedule: no attempt, the schedule is exhausted
SendNothing(self) ==
    LET s1 == [self EXCEPT !.state = "EXHAUSTED"]
    IN [senderobj |-> s1, pc |-> "returned", result |-> SendResult(s1)]

-----------------------------------------------------------------------------
(* Actions *)

\* redislog.py:15 imports djwebhooks.models, which loads the configuration
\* module: the sender exists only when the configuration was accepted.
ModuleLoaded == startup = "ready"

\* A decorated function is called: redislog_callable runs up to send()
Call(dk, kw, hv, raw) ==
    /\ ModuleLoaded
    /\ pc \in {"idle", "returned", "raised"}
    /\ ndispatch < MaxDispatch
    /\ LET e == CallEffect(dk, kw, hv, raw, WEBHOOK_ATTEMPTS, WEBHOOK_OWNER_FIELD)
           f == IF e.pc = "sending" /\ Len(e.senderobj.attempts) = 0
                THEN [e EXCEPT !.pc = "returned",
                               !.senderobj = SendNothing(e.senderobj).senderobj,
                               !.result = SendNothing(e.senderobj).result]
                ELSE e
       IN /\ pc' = f.pc
          /\ raised' = f.raised
          /\ result' = f.result
          /\ senderobj' = f.senderobj
          /\ calls' = f.calls
    /\ call' = [dkwargs |-> dk, kwargs |-> kw, hash_value |-> hv, raw |-> raw,
                started |-> now]
    /\ ndispatch' = ndispatch + 1
    /\ UNCHANGED <<confVars, redis, now, keylog>>

\* One iteration of the retry loop of send()
Attempt(out, keep, reachable) ==
    /\ pc = "sending"
    /\ LET e == SendStep(senderobj, out, keep, reachable, redis, now, calls)
       IN /\ senderobj' = e.senderobj
          /\ redis' = e.redis
          /\ pc' = e.pc
          /\ result' = e.result
          /\ raised' = e.raised
          /\ calls' = e.calls
    /\ now' = now + 1
    /\ UNCHANGED <<confVars, call, ndispatch, keylog>>

Next ==
    \/ LoadConf
    \/ \E dk \in Dkwargs, kw \in Kwargs, hv \in Hashes, raw \in RawPayloads :
          Call(dk, kw, hv, raw)
    \/ \E out \in Outcomes, keep \in BOOLEAN, reachable \in BOOLEAN :
          Attempt(out, keep, reachable)

Spec == Init /\ [][Next]_vars

-----------------------------------------------------------------------------
(* The log key as a function of the sender's event, owner and identifier *)

StrId(r) == [kind |-> "str", repr |-> r]

bob == [username |-> "bob", email |-> "bob@example.com"]

\* Event names and identifiers are free text: they may hold a colon.
KeyEvents == {"order", "order:bob:ship"}
KeyOwners == {bob}
KeyIdentifiers == {StrId("42"), StrId("ship:bob:42")}

\* A sender is built for (event, owner, identifier) (redislog.py:40-48) and
\* the key notify would push to is computed (redislog.py:66).
KeyStep(e, o, i) ==
    /\ ModuleLoaded
    /\ Cardinality(keylog) < MaxKeys
    /\ LET self == RedisLogSenderable_init([event |-> e], "h1", WEBHOOK_ATTEMPTS,
                                           [owner |-> o, identifier |-> i])
       IN keylog' = keylog \cup {[event |-> self.event, owner |-> self.owner,
                                  identifier |-> self.identifier,
                                  key |-> NotifyKey(self)]}
    /\ UNCHANGED <<confVars, redis, now, pc, call, senderobj, result, raised,
                   calls, ndispatch>>

KeyNext ==
    \/ LoadConf
    \/ \E e \in KeyEvents, o \in KeyOwners, i \in KeyIdentifiers : KeyStep(e, o, i)

KeySpec == Init /\ [][KeyNext]_vars

-----------------------------------------------------------------------------
(* Properties *)

Succeeded(a) == ~a.fault /\ Is2xx(a.status)
AllFailed(h) == \A i \in 1..Len(h) : ~Succeeded(h[i])
HasSuccess(h) == \E i \in 1..Len(h) : Succeeded(h[i])
FirstSuccess(h) ==
    CHOOSE i \in 1..Len(h) : Succeeded(h[i]) /\ \A j \in 1..(i - 1) : ~Succeeded(h[j])

\* The values stored in Redis since time t, whatever their key
StoredSince(t) ==
    {v \in UNION {{redis[k][i] : i \in 1..Len(redis[k])} : k \in DOMAIN redis} :
        v.json.created.isoformat >= t}

Sent == pc = "returned" /\ result.kind = "sent"

\* C1: when every transport attempt of a send() fails, send() has made
\* exactly as many attempts as the schedule handed over has entries, the
\* sender is EXHAUSTED, the result reports success = false, and the attempt
\* history has one entry per schedule entry, with indices 0..n-1 in order.
C1_AllFailExhausts ==
    (Sent /\ AllFailed(senderobj.history)) =>
        LET n == Len(WEBHOOK_ATTEMPTS.items)
        IN /\ calls.post = n
           /\ senderobj.state = "EXHAUSTED"
           /\ result.success = FALSE
           /\ Len(result.attempts) = n
           /\ \A i \in 1..n : result.attempts[i].attempt = i - 1

C1_Witness ==
    /\ Sent
    /\ Len(result.attempts) >= 2
    /\ AllFailed(result.attempts)
    /\ result.attempts[1].fault
    /\ ~result.attempts[2].fault

\* C2: once an attempt has got a 2xx status, that attempt (the k-th) is the
\* last one: exactly k attempts and k scheduled delays have been consumed,
\* send() has returned success = true and the sender is SUCCEEDED, in every
\* state from then on.
C2_SuccessEndsLoop ==
    (pc \in {"sending", "returned"} /\ HasSuccess(senderobj.history)) =>
        LET k == FirstSuccess(senderobj.history)
        IN /\ Len(senderobj.history) = k
           /\ calls.post = k
           /\ calls.slept = k
           /\ Sent
           /\ result.success = TRUE
           /\ senderobj.state = "SUCCEEDED"

C2_Witness ==
    /\ Sent
    /\ result.success
    /\ Len(result.attempts) = 2
    /\ Len(WEBHOOK_ATTEMPTS.items) >= 2

NoTargetCall ==
    /\ ndispatch > 0
    /\ Validate(call.dkwargs, call.kwargs) = "ok"
    /\ WebhookTarget_get(call.dkwargs.event, call.kwargs.owner,
                         call.kwargs.identifier) = {}

\* C3: a call whose (event, owner, identifier) has no WebhookTarget has
\* returned exactly {error: "WebhookTarget not found"}, after one lookup,
\* with no transport attempt, no notify and nothing stored in the log.
C3_NotFoundIsTerminal ==
    NoTargetCall =>
        /\ pc = "returned"
        /\ result = [kind |-> "error", error |-> "WebhookTarget not found"]
        /\ calls.lookup = 1
        /\ calls.post = 0
        /\ calls.notify = 0
        /\ calls.lpush = 0
        /\ StoredSince(call.started) = {}

C3_Witness == NoTargetCall /\ pc = "returned" /\ result.kind = "error"

MissingKeyCall ==
    /\ ndispatch > 0
    /\ \/ "owner" \notin DOMAIN call.kwargs
       \/ "identifier" \notin DOMAIN call.kwargs

\* C4: a call without owner, or without identifier, has failed with an
\* exception, and at that moment it has made no target lookup, no transport
\* attempt and no log append.
C4_MissingKeyFailsFirst ==
    MissingKeyCall =>
        /\ pc = "raised"
        /\ calls.lookup = 0
        /\ calls.post = 0
        /\ calls.lpush = 0
        /\ StoredSince(call.started) = {}

C4_Witness ==
    /\ MissingKeyCall
    /\ raised = "TypeError:identifier"
    /\ "owner" \in DOMAIN call.kwargs

\* The Redis list of the current call by its documented key, "event:owner:identifier"
ClaimedKey ==
    call.dkwargs.event \o ":" \o call.kwargs.owner.username \o ":"
        \o call.kwargs.identifier.repr

\* What reading that list returns (head first), restricted to the values
\* stored by the current call
ReadLog ==
    LET whole == IF ClaimedKey \in DOMAIN redis THEN redis[ClaimedKey] ELSE <<>>
    IN SelectSeq(whole, LAMBDA v : v.json.created.isoformat >= call.started)

\* C5: after a delivery of m attempts, each of which got a response and was
\* stored, the list under "event:owner:identifier" holds exactly m records of
\* that delivery, the record of an earlier attempt before the record of a
\* later one when the list is read, and every record holds the payload, the
\* hash, the attempt index and a timestamp.
C5_LogInAttemptOrder ==
    (Sent /\ calls.notified = calls.post) =>
        /\ Len(ReadLog) = calls.post
        /\ \A p, q \in 1..Len(ReadLog) :
              p < q => ReadLog[p].json.attempt < ReadLog[q].json.attempt
        /\ \A p \in 1..Len(ReadLog) :
              {"payload", "hash_value", "attempt", "created"}
                  \subseteq DOMAIN ReadLog[p].json

\* C6: the result of a call that reached send() is the one the transport
\* outcomes alone determine, whether or not the log store failed: the call
\* returns, success is the outcome of the last attempt, and a failed result
\* has used the whole schedule.
C6_LogFaultKeepsSuccess ==
    (ndispatch > 0 /\ calls.post > 0 /\ pc # "sending") =>
        /\ Sent
        /\ result.success = Succeeded(senderobj.history[Len(senderobj.history)])
        /\ result.success \/ Len(senderobj.history) = Len(WEBHOOK_ATTEMPTS.items)

C6_Witness ==
    /\ Sent
    /\ calls.lost > 0
    /\ result.success
    /\ Len(result.attempts) >= 2

\* C7: as long as the log store itself has not failed, notify has been
\* invoked once and has completed once for every transport attempt made,
\* whatever the attempt's outcome.
C7_NotifyPerAttempt ==
    calls.lost = 0 =>
        /\ calls.notify = calls.post
        /\ calls.notified = calls.post

\* C8: every call that has ended has returned a structured result, either
\* {success, attempts, hash} or {error: reason}; none has raised.
C8_NoFaultEscapes ==
    (ndispatch > 0 /\ pc # "sending") =>
        /\ pc = "returned"
        /\ result.kind \in {"sent", "error"}

ConfiguredOwnerField ==
    IF settings.WEBHOOK_OWNER_FIELD = "<unset>" THEN "username"
    ELSE settings.WEBHOOK_OWNER_FIELD

\* C9: in every call that reaches send(), the payload of the sender has
\* event = the decorator's event and owner = the owner's attribute named by
\* the configured owner field (username by default), whatever the wrapped
\* function returned for those keys; every other key is as returned.
C9_PayloadAugmented ==
    (pc = "sending" \/ Sent) =>
        /\ senderobj.payload.event = call.dkwargs.event
        /\ senderobj.payload.owner = call.kwargs.owner[ConfiguredOwnerField]
        /\ DOMAIN senderobj.payload = DOMAIN call.raw \cup {"event", "owner"}
        /\ \A k \in DOMAIN call.raw \ {"event", "owner"} :
              senderobj.payload[k] = call.raw[k]

C9_Witness ==
    /\ Sent
    /\ calls.post > 0
    /\ settings.WEBHOOK_OWNER_FIELD = "email"
    /\ "owner" \in DOMAIN call.raw
    /\ call.raw.owner # senderobj.payload.owner
    /\ call.raw.event # senderobj.payload.event

NonNegativeDelays == {IntItem("0"), IntItem("15"), IntItem("30"), IntItem("60")}

IsRetrySchedule(items) ==
    /\ Len(items) >= 1
    /\ items[1] = IntItem("0")
    /\ \A i \in 1..Len(items) : items[i] \in NonNegativeDelays

\* C10: once startup has accepted the configuration, the schedule handed to
\* the senders is a sequence of non-negative delays that starts with 0, and
\* it is the value of the retry-schedule option (default (0, 15, 30, 60)),
\* whatever the set of allowed events is.
C10_ScheduleIsOwnOption ==
    startup = "ready" =>
        /\ IsRetrySchedule(WEBHOOK_ATTEMPTS.items)
        /\ WEBHOOK_ATTEMPTS = getattr_settings(settings.WEBHOOK_ATTEMPTS, DefaultAttempts)

\* C11: once the configuration has been loaded, an absent or non-iterable
\* event set has made startup fail, and no call has run or can run; an
\* iterable event set has been accepted and the choices are the pairs (x, x)
\* of its items, in iteration order.
C11_BadEventsFatalAtStartup ==
    /\ startup = "boot" => ndispatch = 0
    /\ startup # "boot" =>
          IF settings.WEBHOOK_EVENTS.tag \in {"unset", "noniterable"}
          THEN /\ startup = "failed"
               /\ ndispatch = 0
               /\ pc = "idle"
               /\ ~ENABLED (\E dk \in Dkwargs, kw \in Kwargs, hv \in Hashes,
                               raw \in RawPayloads : Call(dk, kw, hv, raw))
          ELSE /\ startup = "ready"
               /\ Len(WEBHOOK_EVENTS_CHOICES) = Len(settings.WEBHOOK_EVENTS.items)
               /\ \A i \in 1..Len(WEBHOOK_EVENTS_CHOICES) :
                     WEBHOOK_EVENTS_CHOICES[i] =
                         <<settings.WEBHOOK_EVENTS.items[i],
                           settings.WEBHOOK_EVENTS.items[i]>>

C11_Witness ==
    /\ startup = "failed"
    /\ settings.WEBHOOK_EVENTS = NonIterable

\* The first required key the current call lacks, in the order event, owner,
\* identifier
FirstMissingKey ==
    IF "event" \notin DOMAIN call.dkwargs THEN "event"
    ELSE IF "owner" \notin DOMAIN call.kwargs THEN "owner"
    ELSE IF "identifier" \notin DOMAIN call.kwargs THEN "identifier"
    ELSE "none"

RequiredKeys == {"event", "owner", "identifier"}

\* The required keys an error message names
NamedKeys(msg) ==
    {k \in RequiredKeys : \E i \in 1..Len(msg) : msg[i] = "'" \o k \o "'"}

\* C13: a sender object has been constructed in the current call only if
\* the target lookup of that call returned a target.
C13_SenderOnlyAfterTarget ==
    (ndispatch > 0 /\ calls.built > 0) =>
        /\ calls.lookup > 0
        /\ WebhookTarget_get(call.dkwargs.event, call.kwargs.owner,
                             call.kwargs.identifier) # {}

\* C14: a call that lacks a required key has failed with the error of the
\* first key it lacks, in the order event, owner, identifier; the message of
\* that error names that key and no other, and the errors of two different
\* keys differ.
C14_DistinctErrorPerKey ==
    (ndispatch > 0 /\ FirstMissingKey # "none") =>
        /\ pc = "raised"
        /\ NamedKeys(TypeErrorMessage(raised)) = {FirstMissingKey}
        /\ \A other \in {"TypeError:event", "TypeError:owner", "TypeError:identifier"} :
              other # raised => TypeErrorMessage(other) # TypeErrorMessage(raised)

C14_Witness ==
    /\ ndispatch > 0
    /\ pc = "raised"
    /\ FirstMissingKey = "owner"
    /\ "identifier" \notin DOMAIN call.kwargs
    /\ "event" \in DOMAIN call.dkwargs

\* C15: two senders with different (event, owner, identifier) never get the
\* same log key, so the records under one key all come from one triple.
C15_DistinctTriplesDistinctKeys ==
    \A a, b \in keylog :
        a.key = b.key =>
            /\ a.event = b.event
            /\ a.owner = b.owner
            /\ a.identifier = b.identifier

\* The keys whose list holds a value stored by the current call
KeysWritten ==
    {k \in DOMAIN redis :
        \E i \in 1..Len(redis[k]) : redis[k][i].json.created.isoformat >= call.started}

\* C16: every record the current call has stored carries the hash the
\* sender was constructed with, and all its records are under one key, the
\* key of the call's event, owner and identifier, whatever the outcome of
\* the attempts.
C16_OneHashOneKey ==
    ndispatch > 0 =>
        /\ \A v \in StoredSince(call.started) : v.json.hash_value = call.hash_value
        /\ \A k \in KeysWritten : k = ClaimedKey

C16_Witness ==
    /\ Sent
    /\ Cardinality(StoredSince(call.started)) >= 2
    /\ \E v, w \in StoredSince(call.started) : v.json.success # w.json.success

\* C17: in every record the current call has stored, success is true exactly
\* when the recorded response_status is in the 2xx range; at most one of its
\* records has success = true, and no record was stored after that one.
C17_SuccessIffStatus2xx ==
    ndispatch > 0 =>
        /\ \A v \in StoredSince(call.started) :
              v.json.success <=> Is2xx(v.json.response_status)
        /\ \A v, w \in StoredSince(call.started) :
              (v.json.success /\ w.json.success) => v = w
        /\ \A v, w \in StoredSince(call.started) :
              v.json.success => w.json.created.isoformat <= v.json.created.isoformat

C17_Witness ==
    /\ Sent
    /\ Cardinality(StoredSince(call.started)) >= 2
    /\ \E v \in StoredSince(call.started) : v.json.success
    /\ \E v \in StoredSince(call.started) : ~v.json.success

TargetFound ==
    /\ Validate(call.dkwargs, call.kwargs) = "ok"
    /\ WebhookTarget_get(call.dkwargs.event, call.kwargs.owner,
                         call.kwargs.identifier) # {}

\* C18: the wrapped function has been invoked in the current call only if
\* the call's arguments passed the checks and the lookup found a target: a
\* call that failed on a missing key or returned "WebhookTarget not found"
\* has not invoked it.
C18_WrappedOnlyAfterLookup ==
    ndispatch > 0 =>
        /\ calls.wrapped > 0 => (TargetFound /\ calls.lookup > 0)
        /\ (pc = "raised" /\ FirstMissingKey # "none") => calls.wrapped = 0
        /\ (pc = "returned" /\ result.kind = "error") => calls.wrapped = 0

C18_Witness ==
    /\ pc = "returned"
    /\ result.kind = "error"
    /\ calls.lookup = 1
    /\ calls.wrapped = 0
====
